---- MODULE Spec2Model ----
(***************************************************************************)
(* Model of src/index.py: the Flask handler analyze_clauses, the pipeline  *)
(* analyze_with_mistral and the extractor extract_json.                    *)
(*                                                                         *)
(* Python str values are TLA+ strings, read character by character with    *)
(* SubSeq.  Every other Python value is a record [t, v] whose t is the     *)
(* Python type name.  A call either returns a value or raises: Ret / Exc.  *)
(***************************************************************************)
EXTENDS Integers, Sequences, FiniteSets, TLC

VARIABLES
    OPENROUTER_API_KEY, \* the module-level credential, read once at import
    op,                 \* the function being called ("idle": none)
    arg,                \* the argument of that call
    provider,           \* what requests.post did for that call, if it was made
    status,             \* the status of the handler's response (0: none)
    body,               \* the body of the handler's response, a JSON text
    called,             \* whether the handler called analyze_with_mistral
    analysis_result,    \* what analyze_with_mistral returned
    sent,               \* the payloads posted to the provider by that call
    got                 \* the values extract_json returned in that call

vars == <<OPENROUTER_API_KEY, op, arg, provider, status, body, called,
          analysis_result, sent, got>>

-----------------------------------------------------------------------------
(* Python values *)

PyNone == [t |-> "NoneType", v |-> "None"]
PyStr(s) == [t |-> "str", v |-> s]
PyInt(n) == [t |-> "int", v |-> n]
PyBool(b) == [t |-> "bool", v |-> b]
PyList(q) == [t |-> "list", v |-> q]
PyTuple(q) == [t |-> "tuple", v |-> q]
PySet(S) == [t |-> "set", v |-> S]
\* a dict is a function from its (string) keys to values
PyDict(f) == [t |-> "dict", v |-> f]
EmptyDict == PyDict(<<>>)

Ret(x) == [ok |-> TRUE, v |-> x, exc |-> "", msg |-> ""]
Exc(cls, m) == [ok |-> FALSE, v |-> PyNone, exc |-> cls, msg |-> m]

\* Python truthiness: not x
Falsy(x) ==
    CASE x.t = "NoneType" -> TRUE
      [] x.t = "bool" -> ~x.v
      [] x.t = "int" -> x.v = 0
      [] x.t = "str" -> x.v = ""
      [] x.t \in {"list", "tuple"} -> x.v = <<>>
      [] x.t = "dict" -> DOMAIN x.v = {}
      [] x.t = "set" -> x.v = {}
      [] OTHER -> FALSE

-----------------------------------------------------------------------------
(* Text *)

Ch(s, i) == IF i >= 1 /\ i <= Len(s) THEN SubSeq(s, i, i) ELSE ""

StartsWithAt(s, i, p) ==
    /\ i >= 1
    /\ i + Len(p) - 1 <= Len(s)
    /\ SubSeq(s, i, i + Len(p) - 1) = p

\* p in s, for two strings
Contains(s, p) == \E i \in 1..(Len(s) + 1) : StartsWithAt(s, i, p)

Min(S) == CHOOSE x \in S : \A y \in S : x <= y
Max(S) == CHOOSE x \in S : \A y \in S : x >= y

\* the characters str.strip() removes
Whitespace == {" ", "\n", "\r", "\t", "\f"}
Inked(s) == {i \in 1..Len(s) : Ch(s, i) \notin Whitespace}

\* str.strip(): what lies between the first and the last character that is
\* no whitespace
Strip(s) == IF Inked(s) = {} THEN "" ELSE SubSeq(s, Min(Inked(s)), Max(Inked(s)))

\* str.replace(old, new) for a one-character old: character by character,
\* computed half by half
RECURSIVE Replace(_, _, _)
Replace(s, old, new) ==
    IF Len(s) = 0 THEN ""
    ELSE IF Len(s) = 1 THEN (IF s = old THEN new ELSE s)
    ELSE Replace(SubSeq(s, 1, Len(s) \div 2), old, new)
         \o Replace(SubSeq(s, Len(s) \div 2 + 1, Len(s)), old, new)

\* SANY cannot lex a backquote inside a string, so the model writes the
\* backquote character as ^, a character no text of the model otherwise holds
\* and which, like the backquote, is no part of any JSON or Python literal.
Tick == "^"
Fence == Tick \o Tick \o Tick

FenceAt(s) == {i \in 1..Len(s) : StartsWithAt(s, i, Fence)}

\* re.sub of the fence pattern (three backquotes, then optionally json) by "":
\* every non-overlapping fence marker, left to right, is deleted, with the
\* language tag when it follows at once
RECURSIVE RemoveFences(_)
RemoveFences(s) ==
    IF FenceAt(s) = {} THEN s
    ELSE LET i == Min(FenceAt(s))
             n == IF StartsWithAt(s, i + 3, "json") THEN 7 ELSE 3
         IN SubSeq(s, 1, i - 1) \o RemoveFences(SubSeq(s, i + n, Len(s)))

Positions(s, c) == {i \in 1..Len(s) : Ch(s, i) = c}
\* re.search(r"\{.*\}", text, re.DOTALL): the leftmost "{" that has a "}" after
\* it, extended greedily to the last "}"
BraceMatch(s) ==
    /\ Positions(s, "{") # {}
    /\ \E j \in Positions(s, "}") : j > Min(Positions(s, "{"))

\* match.group()
BraceSpan(s) == SubSeq(s, Min(Positions(s, "{")), Max(Positions(s, "}")))

-----------------------------------------------------------------------------
(* json.loads, for texts over: braces, brackets, double quotes, colon,     *)
(* comma, whitespace, digits, a leading minus, null/true/false and the     *)
(* backslash escapes of quote, backslash, slash, n, r and t.  Fractions,   *)
(* exponents, NaN/Infinity and the escapes b, f and u are outside the      *)
(* texts the model feeds it.                                               *)

\* the result of a parser: the value and the index after it
Parsed(x, i) == [ok |-> TRUE, v |-> x, i |-> i]
NoParse == [ok |-> FALSE, v |-> PyNone, i |-> 0]

Digits == {"0", "1", "2", "3", "4", "5", "6", "7", "8", "9"}
DigitVal == ("0" :> 0) @@ ("1" :> 1) @@ ("2" :> 2) @@ ("3" :> 3) @@ ("4" :> 4)
            @@ ("5" :> 5) @@ ("6" :> 6) @@ ("7" :> 7) @@ ("8" :> 8) @@ ("9" :> 9)

RECURSIVE DigitsEnd(_, _)
DigitsEnd(s, i) == IF Ch(s, i) \in Digits THEN DigitsEnd(s, i + 1) ELSE i

RECURSIVE DigitsValue(_)
DigitsValue(d) ==
    IF d = "" THEN 0
    ELSE 10 * DigitsValue(SubSeq(d, 1, Len(d) - 1)) + DigitVal[Ch(d, Len(d))]

JsonWs == {" ", "\t", "\n", "\r"}
JsonControl == {"\n", "\r", "\t", "\f"}
JsonEscape == ("\"" :> "\"") @@ ("\\" :> "\\") @@ ("/" :> "/")
              @@ ("n" :> "\n") @@ ("r" :> "\r") @@ ("t" :> "\t")

RECURSIVE JSkip(_, _)
JSkip(s, i) == IF Ch(s, i) \in JsonWs THEN JSkip(s, i + 1) ELSE i

\* py_scanstring, strict: from s[i], after the opening quote, one run of plain
\* characters at a time, each ended by the closing quote, an escape or a
\* control character
RECURSIVE JString(_, _, _)
JString(s, i, acc) ==
    LET marks == {j \in i..Len(s) : Ch(s, j) \in {"\"", "\\"} \union JsonControl}
        j == Min(marks)
        run == acc \o SubSeq(s, i, j - 1)
    IN IF marks = {} THEN NoParse
       ELSE IF Ch(s, j) = "\"" THEN Parsed(PyStr(run), j + 1)
       ELSE IF Ch(s, j) = "\\" /\ Ch(s, j + 1) \in DOMAIN JsonEscape
            THEN JString(s, j + 2, run \o JsonEscape[Ch(s, j + 1)])
       ELSE NoParse

\* NUMBER_RE: -?(0|[1-9]\d*)
JNumber(s, i) ==
    LET neg == Ch(s, i) = "-"
        b == IF neg THEN i + 1 ELSE i
        e == IF Ch(s, b) = "0" THEN b + 1 ELSE DigitsEnd(s, b)
        n == DigitsValue(SubSeq(s, b, e - 1))
    IN IF e = b THEN NoParse
       ELSE Parsed(PyInt(IF neg THEN 0 - n ELSE n), e)

RECURSIVE JValue(_, _), JMembers(_, _, _), JElements(_, _, _)

\* scan_once
JValue(s, i) ==
    LET c == Ch(s, i) IN
    IF c = "\"" THEN JString(s, i + 1, "")
    ELSE IF c = "{"
         THEN LET j == JSkip(s, i + 1) IN
              IF Ch(s, j) = "}" THEN Parsed(EmptyDict, j + 1)
              ELSE IF Ch(s, j) = "\"" THEN JMembers(s, j, <<>>)
              ELSE NoParse
    ELSE IF c = "["
         THEN LET j == JSkip(s, i + 1) IN
              IF Ch(s, j) = "]" THEN Parsed(PyList(<<>>), j + 1)
              ELSE JElements(s, j, <<>>)
    ELSE IF StartsWithAt(s, i, "null") THEN Parsed(PyNone, i + 4)
    ELSE IF StartsWithAt(s, i, "true") THEN Parsed(PyBool(TRUE), i + 4)
    ELSE IF StartsWithAt(s, i, "false") THEN Parsed(PyBool(FALSE), i + 5)
    ELSE JNumber(s, i)

\* JSONObject: s[i] is the quote opening a key; d holds the pairs read so far
\* (a repeated key keeps its last value)
JMembers(s, i, d) ==
    LET k == JString(s, i + 1, "")
        c == JSkip(s, k.i)
        x == JValue(s, JSkip(s, c + 1))
        e == JSkip(s, x.i)
        d2 == (k.v.v :> x.v) @@ d
        n == JSkip(s, e + 1)
    IN IF ~k.ok \/ Ch(s, c) # ":" THEN NoParse
       ELSE IF ~x.ok THEN NoParse
       ELSE IF Ch(s, e) = "}" THEN Parsed(PyDict(d2), e + 1)
       ELSE IF Ch(s, e) = "," /\ Ch(s, n) = "\"" THEN JMembers(s, n, d2)
       ELSE NoParse

\* JSONArray: a value starts at s[i]; q holds the values read so far
JElements(s, i, q) ==
    LET x == JValue(s, i)
        e == JSkip(s, x.i)
    IN IF ~x.ok THEN NoParse
       ELSE IF Ch(s, e) = "]" THEN Parsed(PyList(Append(q, x.v)), e + 1)
       ELSE IF Ch(s, e) = "," THEN JElements(s, JSkip(s, e + 1), Append(q, x.v))
       ELSE NoParse

\* json.loads ends after the value r and the blanks behind it, or raises
\* "Extra data"
JsonResult(s, r) ==
    IF r.ok /\ JSkip(s, r.i) = Len(s) + 1 THEN Ret(r.v)
    ELSE Exc("JSONDecodeError", "Expecting value")

\* json.loads(x) for a Python value x: an argument that is no str is a TypeError
json_loads(x) ==
    IF x.t # "str"
    THEN Exc("TypeError",
             "the JSON object must be str, bytes or bytearray, not " \o x.t)
    ELSE JsonResult(x.v, JValue(x.v, JSkip(x.v, 1)))

-----------------------------------------------------------------------------
(* ast.literal_eval, for texts over: quotes of both kinds (single, triple, *)
(* adjacent literals concatenated), integers with an optional sign, the    *)
(* names None/True/False, list displays, dict displays with string keys,   *)
(* set displays, a top-level tuple without parentheses, trailing commas.   *)
(* Any other character (the backquote among them) is no part of a literal. *)
(* String prefixes, parentheses, floats, complex numbers, numeric escapes  *)
(* and dict keys that are not strings are outside the texts of the model.  *)

Quotes == {"'", "\""}
Newlines == {"\n", "\r"}
Letters == {"a", "b", "c", "d", "e", "f", "g", "h", "i", "j", "k", "l", "m",
            "n", "o", "p", "q", "r", "s", "t", "u", "v", "w", "x", "y", "z",
            "A", "B", "C", "D", "E", "F", "G", "H", "I", "J", "K", "L", "M",
            "N", "O", "P", "Q", "R", "S", "T", "U", "V", "W", "X", "Y", "Z", "_"}
PyEscape == ("\"" :> "\"") @@ ("'" :> "'") @@ ("\\" :> "\\")
            @@ ("n" :> "\n") @@ ("r" :> "\r") @@ ("t" :> "\t")

\* blanks between tokens; inside brackets a line break is a blank too
RECURSIVE PSkip(_, _, _)
PSkip(s, i, nested) ==
    IF Ch(s, i) \in {" ", "\t", "\f"} \/ (nested /\ Ch(s, i) \in Newlines)
    THEN PSkip(s, i + 1, nested) ELSE i

\* the body of a string literal opened by the quote q (three of them when
\* triple), from s[i]: one run of plain characters at a time, each ended by a
\* quote, an escape or a line break
RECURSIVE PStringBody(_, _, _, _, _)
PStringBody(s, i, q, triple, acc) ==
    LET marks == {j \in i..Len(s) : Ch(s, j) \in {q, "\\"} \union Newlines}
        j == Min(marks)
        c == Ch(s, j)
        run == acc \o SubSeq(s, i, j - 1)
    IN IF marks = {} THEN NoParse
       ELSE IF c = q /\ ~triple THEN Parsed(PyStr(run), j + 1)
       ELSE IF c = q /\ StartsWithAt(s, j, q \o q \o q) THEN Parsed(PyStr(run), j + 3)
       ELSE IF c \in Newlines /\ ~triple THEN NoParse
       ELSE IF c = "\\" /\ Ch(s, j + 1) = "" THEN NoParse
       ELSE IF c = "\\" /\ Ch(s, j + 1) \in DOMAIN PyEscape
            THEN PStringBody(s, j + 2, q, triple, run \o PyEscape[Ch(s, j + 1)])
       ELSE IF c = "\\"
            THEN PStringBody(s, j + 2, q, triple, run \o c \o Ch(s, j + 1))
       ELSE PStringBody(s, j + 1, q, triple, run \o c)

\* one string literal at s[i], a quote
PString(s, i) ==
    LET q == Ch(s, i) IN
    IF StartsWithAt(s, i, q \o q \o q)
    THEN PStringBody(s, i + 3, q, TRUE, "")
    ELSE PStringBody(s, i + 1, q, FALSE, "")

\* adjacent string literals are one string
RECURSIVE PStrings(_, _, _, _)
PStrings(s, i, nested, acc) ==
    LET r == PString(s, i)
        j == PSkip(s, r.i, nested)
    IN IF ~r.ok THEN NoParse
       ELSE IF Ch(s, j) \in Quotes THEN PStrings(s, j, nested, acc \o r.v.v)
       ELSE Parsed(PyStr(acc \o r.v.v), r.i)

\* a decimal integer: zeros only, or no leading zero; no name may follow at once
PNumber(s, i) ==
    LET e == DigitsEnd(s, i)
        d == SubSeq(s, i, e - 1)
    IN IF Ch(s, e) \in Letters \union {"."} THEN NoParse
       ELSE IF Ch(d, 1) = "0" /\ DigitsValue(d) # 0 THEN NoParse
       ELSE Parsed(PyInt(DigitsValue(d)), e)

RECURSIVE NameEnd(_, _)
NameEnd(s, i) ==
    IF Ch(s, i) \in Letters \union Digits THEN NameEnd(s, i + 1) ELSE i

PName(s, i) ==
    LET e == NameEnd(s, i)
        n == SubSeq(s, i, e - 1)
    IN IF Ch(s, e) \in Quotes THEN NoParse
       ELSE IF n = "None" THEN Parsed(PyNone, e)
       ELSE IF n = "True" THEN Parsed(PyBool(TRUE), e)
       ELSE IF n = "False" THEN Parsed(PyBool(FALSE), e)
       ELSE NoParse

Hashable(x) == x.t \in {"str", "int", "bool", "NoneType"}

RECURSIVE PExpr(_, _, _), PItems(_, _, _), PPairs(_, _, _), PMembers(_, _, _)

\* one expression starting at s[i]
PExpr(s, i, nested) ==
    LET c == Ch(s, i) IN
    IF c \in Quotes THEN PStrings(s, i, nested, "")
    ELSE IF c \in Digits THEN PNumber(s, i)
    ELSE IF c \in {"-", "+"}
         THEN LET r == PNumber(s, PSkip(s, i + 1, nested)) IN
              IF ~r.ok \/ Ch(s, PSkip(s, i + 1, nested)) \notin Digits THEN NoParse
              ELSE IF c = "-" THEN Parsed(PyInt(0 - r.v.v), r.i) ELSE r
    ELSE IF c \in Letters THEN PName(s, i)
    ELSE IF c = "[" THEN PItems(s, PSkip(s, i + 1, TRUE), <<>>)
    ELSE IF c = "{"
         THEN LET j == PSkip(s, i + 1, TRUE)
                  k == PExpr(s, j, TRUE)
                  m == PSkip(s, k.i, TRUE)
              IN IF Ch(s, j) = "}" THEN Parsed(EmptyDict, j + 1)
                 ELSE IF ~k.ok THEN NoParse
                 ELSE IF Ch(s, m) = ":" THEN PPairs(s, j, <<>>)
                 ELSE PMembers(s, j, {})
    ELSE NoParse

\* the elements of a list display from s[i], up to its closing bracket
PItems(s, i, q) ==
    LET x == PExpr(s, i, TRUE)
        e == PSkip(s, x.i, TRUE)
    IN IF Ch(s, i) = "]" THEN Parsed(PyList(q), i + 1)
       ELSE IF ~x.ok THEN NoParse
       ELSE IF Ch(s, e) = "," THEN PItems(s, PSkip(s, e + 1, TRUE), Append(q, x.v))
       ELSE IF Ch(s, e) = "]" THEN Parsed(PyList(Append(q, x.v)), e + 1)
       ELSE NoParse

\* the key: value pairs of a dict display from s[i], up to its closing brace
PPairs(s, i, d) ==
    LET k == PExpr(s, i, TRUE)
        c == PSkip(s, k.i, TRUE)
        x == PExpr(s, PSkip(s, c + 1, TRUE), TRUE)
        e == PSkip(s, x.i, TRUE)
    IN IF Ch(s, i) = "}" THEN Parsed(PyDict(d), i + 1)
       ELSE IF ~k.ok \/ Ch(s, c) # ":" THEN NoParse
       ELSE IF ~x.ok \/ k.v.t # "str" THEN NoParse
       ELSE IF Ch(s, e) = ","
            THEN PPairs(s, PSkip(s, e + 1, TRUE), (k.v.v :> x.v) @@ d)
       ELSE IF Ch(s, e) = "}" THEN Parsed(PyDict((k.v.v :> x.v) @@ d), e + 1)
       ELSE NoParse

\* the elements of a set display from s[i], up to its closing brace
PMembers(s, i, S) ==
    LET x == PExpr(s, i, TRUE)
        e == PSkip(s, x.i, TRUE)
    IN IF Ch(s, i) = "}" THEN Parsed(PySet(S), i + 1)
       ELSE IF ~x.ok THEN NoParse
       ELSE IF ~Hashable(x.v) THEN NoParse
       ELSE IF Ch(s, e) = "," THEN PMembers(s, PSkip(s, e + 1, TRUE), S \union {x.v})
       ELSE IF Ch(s, e) = "}" THEN Parsed(PySet(S \union {x.v}), e + 1)
       ELSE NoParse

\* only blanks and line breaks are left from s[i] on
AtEnd(s, i) == Strip(SubSeq(s, i, Len(s))) = ""

SyntaxError == Exc("SyntaxError", "invalid syntax")

\* the rest of a top-level tuple, after a comma: q holds the values read so far
RECURSIVE PTuple(_, _, _), PTupleNext(_, _, _)
PTuple(s, i, q) ==
    IF AtEnd(s, i) THEN Ret(PyTuple(q))
    ELSE PTupleNext(s, q, PExpr(s, i, FALSE))

PTupleNext(s, q, x) ==
    IF ~x.ok THEN SyntaxError
    ELSE IF Ch(s, PSkip(s, x.i, FALSE)) = ","
         THEN PTuple(s, PSkip(s, PSkip(s, x.i, FALSE) + 1, FALSE), Append(q, x.v))
    ELSE IF AtEnd(s, x.i) THEN Ret(PyTuple(Append(q, x.v)))
    ELSE SyntaxError

\* the value of s, whose first expression is x
LiteralValue(s, x) ==
    IF ~x.ok THEN SyntaxError
    ELSE IF AtEnd(s, x.i) THEN Ret(x.v)
    ELSE IF Ch(s, PSkip(s, x.i, FALSE)) = ","
         THEN PTuple(s, PSkip(s, PSkip(s, x.i, FALSE) + 1, FALSE), <<x.v>>)
    ELSE SyntaxError

\* ast.literal_eval(s): the value of the one expression s holds, or a raise
ast_literal_eval(s) == LiteralValue(s, PExpr(s, PSkip(s, 1, FALSE), FALSE))

-----------------------------------------------------------------------------
(* json.dumps / jsonify: dict, list, tuple, str, int, bool and None        *)

Serializable(x) == x.t \in {"dict", "list", "tuple", "str", "int", "bool", "NoneType"}

\* the string literal of s: quote, backslash and control characters escaped,
\* character by character, computed half by half
RECURSIVE DumpString(_)
DumpString(s) ==
    IF Len(s) = 0 THEN ""
    ELSE IF Len(s) = 1
         THEN CASE s = "\"" -> "\\\""
                [] s = "\\" -> "\\\\"
                [] s = "\n" -> "\\n"
                [] s = "\r" -> "\\r"
                [] s = "\t" -> "\\t"
                [] OTHER -> s
    ELSE DumpString(SubSeq(s, 1, Len(s) \div 2))
         \o DumpString(SubSeq(s, Len(s) \div 2 + 1, Len(s)))

RECURSIVE json_dumps(_), DumpItems(_), DumpPairs(_, _)

\* the text of x, with the separators ", " and ": "; the order of the keys of
\* a dict is the order CHOOSE picks them in
json_dumps(x) ==
    CASE x.t = "str" -> "\"" \o DumpString(x.v) \o "\""
      [] x.t = "int" -> ToString(x.v)
      [] x.t = "bool" -> IF x.v THEN "true" ELSE "false"
      [] x.t = "NoneType" -> "null"
      [] x.t \in {"list", "tuple"} -> "[" \o DumpItems(x.v) \o "]"
      [] x.t = "dict" -> "{" \o DumpPairs(x.v, DOMAIN x.v) \o "}"

DumpItems(q) ==
    IF q = <<>> THEN ""
    ELSE json_dumps(Head(q))
         \o (IF Len(q) > 1 THEN ", " ELSE "") \o DumpItems(Tail(q))

DumpPairs(d, K) ==
    IF K = {} THEN ""
    ELSE LET k == CHOOSE k \in K : TRUE IN
         "\"" \o DumpString(k) \o "\": " \o json_dumps(d[k])
         \o (IF K \ {k} # {} THEN ", " ELSE "") \o DumpPairs(d, K \ {k})

\* flask.jsonify(x): the response body
jsonify(x) == json_dumps(x)

-----------------------------------------------------------------------------
(* Python operators the handler and the pipeline apply to untyped values   *)

\* s in x, for a str s
PyIn(s, x) ==
    CASE x.t = "dict" -> Ret(PyBool(s \in DOMAIN x.v))
      [] x.t \in {"list", "tuple"} ->
            Ret(PyBool(\E i \in 1..Len(x.v) : x.v[i].t = "str" /\ x.v[i].v = s))
      [] x.t = "set" -> Ret(PyBool(PyStr(s) \in x.v))
      [] x.t = "str" -> Ret(PyBool(Contains(x.v, s)))
      [] OTHER -> Exc("TypeError", "argument of type '" \o x.t \o "' is not iterable")

\* x[k], for a str or int k
GetItem(x, k) ==
    CASE x.t = "dict" ->
            IF k.t = "str" /\ k.v \in DOMAIN x.v THEN Ret(x.v[k.v])
            ELSE Exc("KeyError", IF k.t = "str" THEN "'" \o k.v \o "'" ELSE ToString(k.v))
      [] x.t \in {"list", "tuple"} ->
            IF k.t # "int"
            THEN Exc("TypeError", x.t \o " indices must be integers or slices, not " \o k.t)
            ELSE IF k.v >= 0 /\ k.v < Len(x.v) THEN Ret(x.v[k.v + 1])
            ELSE Exc("IndexError", x.t \o " index out of range")
      [] x.t = "str" ->
            IF k.t # "int" THEN Exc("TypeError", "string indices must be integers")
            ELSE IF k.v >= 0 /\ k.v < Len(x.v) THEN Ret(PyStr(Ch(x.v, k.v + 1)))
            ELSE Exc("IndexError", "string index out of range")
      [] OTHER -> Exc("TypeError", "'" \o x.t \o "' object is not subscriptable")

\* x.get(k, default)
PyGet(x, k, default) ==
    IF x.t = "dict" THEN Ret(IF k \in DOMAIN x.v THEN x.v[k] ELSE default)
    ELSE Exc("AttributeError", "'" \o x.t \o "' object has no attribute 'get'")

\* the step r[k] of a chain of subscripts that a raise cuts short
Then(r, k) == IF r.ok THEN GetItem(r.v, k) ELSE r

\* except requests.exceptions.RequestException (since requests 2.27 the
\* JSONDecodeError of response.json() is one)
IsRequestException(cls) ==
    cls \in {"ConnectionError", "Timeout", "requests.JSONDecodeError"}

\* except json.JSONDecodeError
IsJSONDecodeError(cls) == cls \in {"JSONDecodeError", "requests.JSONDecodeError"}

-----------------------------------------------------------------------------
(* extract_json, lines 144-167 *)

GoodKey == "good_clausess"
BadKey == "bad_clausess"

\* the mapping of lines 163-167
Fallback ==
    PyDict((GoodKey :> PyList(<<>>)) @@ (BadKey :> PyList(<<>>))
           @@ ("error" :> PyStr("Could not extract valid JSON from the model response.")))

\* line 151
FenceStripped(text) == Strip(RemoveFences(text))

\* line 156
Cleaned(span) == Replace(Replace(span, "\n", " "), "\r", "")

\* lines 153-160: the strict parse of the brace span when there is one, the
\* literal evaluation of the whole text when there is none
ParseStripped(stripped) ==
    IF BraceMatch(stripped)
    THEN json_loads(PyStr(Cleaned(BraceSpan(stripped))))
    ELSE ast_literal_eval(stripped)

\* lines 146-160, the try block: a value or a raise.  re.sub raises TypeError
\* on an argument that is no string.
ExtractTry(text) ==
    IF text.t # "str" THEN Exc("TypeError", "expected string or bytes-like object")
    ELSE ParseStripped(FenceStripped(text.v))

\* lines 161-167: except Exception returns the fallback mapping
ExtractExcept(r) == IF r.ok THEN r.v ELSE Fallback

extract_json(text) == ExtractExcept(ExtractTry(text))

-----------------------------------------------------------------------------
(* analyze_with_mistral, lines 55-142 *)

\* the degraded mapping every error path returns
ErrorResult(m) ==
    PyDict(("error" :> PyStr(m)) @@ (GoodKey :> PyList(<<>>)) @@ (BadKey :> PyList(<<>>)))

\* lines 76-101: the request payload
system_message == "You are a legal expert who analyzes contract clauses."
user_message(legal_text) ==
    "\n        Analyze the following legal text and categorize each clause as either \"good\" or \"bad\" for a typical contract participant."
    \o "\n        Good clauses are those that are fair, balanced, and protect both parties' interests."
    \o "\n        Bad clauses are those that are one-sided, potentially exploitative, or have hidden implications."
    \o "\n        \n        Format your response as JSON with exactly two keys:"
    \o "\n        1. \"good_clausess\": A list of strings, where each string is a good clause"
    \o "\n        2. \"bad_clausess\": A list of strings, where each string is a bad clause"
    \o "\n        \n        Respond only with the JSON object, no additional text or explanation."
    \o "\n        \n        Legal text to analyze:\n        " \o legal_text \o "\n        "
Payload(legal_text) ==
    [model |-> "google/gemini-2.5-pro-exp-03-25:free",
     messages |-> <<[role |-> "system", content |-> system_message],
                    [role |-> "user", content |-> user_message(legal_text)]>>]

\* what one call of the pipeline did: its result (a return or a raise), the
\* payloads it posted, and the values extract_json returned to it
Did(r, posted, returned) == [result |-> r, sent |-> posted, got |-> returned]

\* lines 114-125: both branches build the same mapping from result
Normalize(result) ==
    LET hasGood == PyIn(GoodKey, result)
        hasBad == PyIn(BadKey, result)
        good == PyGet(result, GoodKey, PyList(<<>>))
        bad == PyGet(result, BadKey, PyList(<<>>))
    IN IF ~hasGood.ok THEN hasGood
       ELSE IF hasGood.v.v /\ ~hasBad.ok THEN hasBad
       ELSE IF ~good.ok THEN good
       ELSE Ret(PyDict((GoodKey :> good.v) @@ (BadKey :> bad.v)))

\* line 112
AsDict(text) == IF text.t = "dict" THEN Ret(text) ELSE json_loads(text)

\* lines 112-125, with result what line 112 evaluates to
Decoded(posted, text, result) ==
    IF ~result.ok THEN Did(result, posted, <<text>>)
    ELSE Did(Normalize(result.v), posted, <<text>>)

\* lines 111-125, with text what extract_json returned
Extracted(posted, text) == Decoded(posted, text, AsDict(text))

\* line 108
Content(response_data) ==
    Then(Then(Then(Then(response_data, PyStr("choices")), PyInt(0)),
              PyStr("message")), PyStr("content"))

\* lines 108-125, with content what line 108 evaluates to
Completed(posted, content) ==
    IF ~content.ok THEN Did(content, posted, <<>>)
    ELSE Extracted(posted, extract_json(content.v))

\* a faulty variant of Posted that takes every status below 400 for a success;
\* C8 tells the two apart
PostedLenient(posted, out) ==
    IF out.raised THEN Did(Exc(out.exc, out.msg), posted, <<>>)
    ELSE IF out.status_code >= 400
         THEN Did(Ret(ErrorResult("API request failed: " \o ToString(out.status_code))),
                  posted, <<>>)
    ELSE Completed(posted, Content(out.json))

\* lines 104-132.  out is what requests.post does: it raises out.exc, or
\* answers out.status_code with a body response.json() turns into out.json (a
\* value or a raise).
Posted(posted, out) ==
    IF out.raised THEN Did(Exc(out.exc, out.msg), posted, <<>>)
    ELSE IF out.status_code # 200
         THEN Did(Ret(ErrorResult("API request failed: " \o ToString(out.status_code))),
                  posted, <<>>)
    ELSE Completed(posted, Content(out.json))

\* a faulty variant of PipelineTry without the credential check of lines
\* 65-73; C7 tells the two apart
PipelineTryNoCheck(legal_text, key, out) == Posted(<<Payload(legal_text)>>, out)

\* lines 66-132, the try block
PipelineTry(legal_text, key, out) ==
    IF Falsy(key)
    THEN Did(Ret(ErrorResult("OpenRouter API key not configured")), <<>>, <<>>)
    ELSE Posted(<<Payload(legal_text)>>, out)

\* lines 134-142: the except clauses, in order
PipelineExcept(e) ==
    IF IsRequestException(e.exc) THEN Ret(ErrorResult("Request error: " \o e.msg))
    ELSE IF IsJSONDecodeError(e.exc) THEN Ret(ErrorResult("Failed to parse AI response"))
    ELSE Ret(ErrorResult("Analysis error: " \o e.msg))

\* a faulty variant of PipelineCaught without the except clauses: what the try
\* block raises leaves the pipeline; C6 tells the two apart
PipelineUncaught(d) == d

PipelineCaught(d) ==
    IF d.result.ok THEN d ELSE Did(PipelineExcept(d.result), d.sent, d.got)

analyze_with_mistral(legal_text, key, out) ==
    PipelineCaught(PipelineTry(legal_text, key, out))

-----------------------------------------------------------------------------
(* analyze_clauses, lines 26-53 *)

Response(code, mapping) == [status |-> code, body |-> jsonify(mapping)]
ErrorBody(m) == PyDict("error" :> PyStr(m))

\* the handler did not reach the pipeline
NotCalled == Did(Ret(PyNone), <<>>, <<>>)
Handled(resp, reached, d) == [resp |-> resp, called |-> reached, did |-> d]

\* a faulty variant of InvalidText without the strip() test; C5 tells the two
\* apart
InvalidTextNoStrip(legal_text) == Falsy(legal_text) \/ legal_text.t # "str"

\* lines 43-44
InvalidText(legal_text) ==
    \/ Falsy(legal_text)
    \/ legal_text.t # "str"
    \/ Strip(legal_text.v) = ""

\* lines 47-49: the response built from what the pipeline did
Delivered(d) ==
    IF ~d.result.ok THEN Handled(d.result, TRUE, d)
    ELSE IF ~Serializable(d.result.v)
         THEN Handled(Exc("TypeError", "Object is not JSON serializable"), TRUE, d)
    ELSE Handled(Ret(Response(200, d.result.v)), TRUE, d)

Rejected(m) == Handled(Ret(Response(400, ErrorBody(m))), FALSE, NotCalled)

\* lines 34-49, the try block.  req is what request.get_json() does: a value,
\* or a raise (a body that is no JSON).
HandlerTry(req, key, out) ==
    LET data == req.v
        hasKey == PyIn("legal_text", data)
        legal_text == GetItem(data, PyStr("legal_text"))
    IN IF ~req.ok THEN Handled(req, FALSE, NotCalled)
       ELSE IF Falsy(data) THEN Rejected("Missing 'legal_text' in request body")
       ELSE IF ~hasKey.ok THEN Handled(hasKey, FALSE, NotCalled)
       ELSE IF ~hasKey.v.v THEN Rejected("Missing 'legal_text' in request body")
       ELSE IF ~legal_text.ok THEN Handled(legal_text, FALSE, NotCalled)
       ELSE IF InvalidText(legal_text.v)
            THEN Rejected("Invalid or empty legal text provided")
       ELSE Delivered(analyze_with_mistral(legal_text.v.v, key, out))

\* lines 51-53
HandlerExcept(e) == Response(500, ErrorBody("Internal server error: " \o e.msg))

HandlerCaught(h) ==
    IF h.resp.ok THEN [h EXCEPT !.resp = h.resp.v]
    ELSE [h EXCEPT !.resp = HandlerExcept(h.resp)]

analyze_clauses(req, key, out) == HandlerCaught(HandlerTry(req, key, out))

-----------------------------------------------------------------------------
(* The inputs: credentials, request bodies, provider behaviours, replies   *)

MaxLen == 3

\* every string of at most n characters of A
RECURSIVE Strings(_, _)
Strings(A, n) ==
    IF n = 0 THEN {""}
    ELSE Strings(A, n - 1) \union {s \o c : s \in Strings(A, n - 1), c \in A}

ReplyAlphabet == {"{", "}", "[", "]", "'", "\"", "1", Tick}
ShortTexts == Strings(ReplyAlphabet, MaxLen)

\* os.environ.get("OPENROUTER_API_KEY"): unset, empty or set
Keys == {PyNone, PyStr(""), PyStr("sk-or-v1-test")}

LegalTexts ==
    {PyNone, PyStr(""), PyStr("   "), PyStr(" \n\t"), PyInt(0), PyInt(5),
     PyBool(FALSE), PyBool(TRUE), PyList(<<>>), PyList(<<PyStr("a")>>),
     EmptyDict, PyDict("a" :> PyInt(1)),
     PyStr("a"), PyStr(" Clause 1. "), PyStr("The tenant pays all costs.")}

\* what request.get_json() does: it raises on a body that is no JSON (and, in
\* Flask 2.1 and later, on a body not declared as JSON), or returns the value
Requests ==
    {Exc("BadRequest", "400 Bad Request: Failed to decode JSON object"),
     Exc("UnsupportedMediaType", "415 Unsupported Media Type"),
     Ret(PyNone), Ret(EmptyDict), Ret(PyDict("text" :> PyStr("a"))),
     Ret(PyList(<<>>)), Ret(PyList(<<PyStr("x")>>)),
     Ret(PyList(<<PyStr("legal_text")>>)),
     Ret(PyStr("")), Ret(PyStr("abc")), Ret(PyStr("legal_text")),
     Ret(PyStr("my legal_text here")),
     Ret(PyInt(0)), Ret(PyInt(5)), Ret(PyBool(FALSE)), Ret(PyBool(TRUE))}
    \union {Ret(PyDict("legal_text" :> x)) : x \in LegalTexts}
    \union {Ret(PyDict(("legal_text" :> x) @@ ("lang" :> PyStr("en")))) : x \in LegalTexts}

\* replies of the model, as the spec and the prompt describe them and as they go wrong
Replies ==
    {Fence \o "json\n{\"good_clausess\":[\"a\"],\"bad_clausess\":[\"b\"]}\n" \o Fence,
     Fence \o "\n{\"good_clausess\": [\"a\"], \"bad_clausess\": []}\n" \o Fence,
     "Here is the result: {\"good_clausess\": [], \"bad_clausess\": [\"x\"]} Thanks!",
     "no json here",
     "",
     "{\"good_clausess\": [\"a\"], \"bad_clausess\": []}",
     "{\n  \"good_clausess\": [\n    \"a\",\r\n    \"b\"\n  ],\n  \"bad_clausess\": []\n}",
     "{\"good_clauses\": [\"a\"], \"bad_clauses\": [\"b\"]}",
     "{\"good_clausess\": [\"a\"]}",
     "{\"bad_clausess\": [\"b\"]}",
     "{}",
     "{\"good_clausess\": null, \"bad_clausess\": []}",
     "{\"good_clausess\": [\"a\"], \"bad_clausess\": null}",
     "{\"good_clausess\": \"a\", \"bad_clausess\": 5}",
     "{\"good_clausess\": {\"a\": true}, \"bad_clausess\": [null]}",
     "{\"good_clausess\": [\"use " \o Fence \o "x" \o Fence \o " here\"], \"bad_clausess\": []}",
     "{\"good_clausess\": [\"a {b} c\"], \"bad_clausess\": [\"}\"]}",
     "{'good_clausess': ['a'], 'bad_clausess': []}",
     "{'good_clausess': ['a'], \"bad_clausess\": ['b',],}",
     "{\"good_clausess\": [\"a\"], \"bad_clausess\": [\"b\"],}",
     "{\"good_clausess\": [\"a\"], \"bad_clausess\": [\"b\"]",
     "{\"good_clausess\": [\"a\"]} and {\"bad_clausess\": [\"b\"]}",
     "[1, 2]", "[\"a\", \"b\"]", "42", "-7", "'abc'", "\"abc\"", "None", "True",
     "'a', 'b'", "'[1]'", "'5'", "'null'", "'\"good_clausess bad_clausess\"'",
     "['good_clausess', 'bad_clausess']"}

\* what response_data["choices"][0]["message"]["content"] can be
Contents == {PyStr(s) : s \in Replies} \union {PyNone, PyInt(5), PyList(<<PyStr("{}")>>)}

Completion(content) ==
    PyDict("choices" :> PyList(<<PyDict("message" :> PyDict("content" :> content))>>))

\* requests.post raised
Raised(cls, m) ==
    [raised |-> TRUE, exc |-> cls, msg |-> m, status_code |-> 0, json |-> Ret(PyNone)]
\* requests.post returned a response with this status, whose json() does j
Answered(code, j) ==
    [raised |-> FALSE, exc |-> "", msg |-> "", status_code |-> code, json |-> j]

Failures ==
    {Raised("ConnectionError", "Connection refused"), Raised("Timeout", "Read timed out")}
    \union {Answered(c, Ret(PyDict("error" :> PyStr("x")))) : c \in {201, 204, 400, 401, 404, 429, 500, 503}}
    \union {Answered(503, Exc("requests.JSONDecodeError", "Expecting value"))}
    \union {Answered(200, j) : j \in
              {Exc("requests.JSONDecodeError", "Expecting value: line 1 column 1 (char 0)"),
               Exc("JSONDecodeError", "Expecting value: line 1 column 1 (char 0)"),
               Ret(EmptyDict), Ret(PyNone), Ret(PyList(<<>>)), Ret(PyStr("ok")),
               Ret(PyDict("error" :> PyDict("message" :> PyStr("rate limited")))),
               Ret(PyDict("choices" :> PyList(<<>>))),
               Ret(PyDict("choices" :> PyNone)),
               Ret(PyDict("choices" :> PyList(<<EmptyDict>>))),
               Ret(PyDict("choices" :> PyList(<<PyDict("message" :> EmptyDict)>>))),
               Ret(PyDict("choices" :> PyList(<<PyDict("message" :> PyNone)>>)))}}

\* the provider behaviours a request of the handler meets
Outcomes == Failures \union {Answered(200, Ret(Completion(c))) : c \in Contents}

\* those a direct call of the pipeline meets: the short replies as well
AllOutcomes ==
    Outcomes \union {Answered(200, Ret(Completion(PyStr(s)))) : s \in ShortTexts}

\* a valid JSON object whose one clause is s, and its clean serialization
ClauseObject(s) == PyDict((GoodKey :> PyList(<<PyStr(s)>>)) @@ (BadKey :> PyList(<<>>)))
Serialized == {json_dumps(ClauseObject(s)) : s \in ShortTexts \union {"x\ny", "a\\b"}}
                 \union {json_dumps(EmptyDict)}

\* the arguments of a direct call of the extractor
Texts ==
    Contents \union {PyStr(s) : s \in ShortTexts} \union {PyStr(s) : s \in Serialized}

-----------------------------------------------------------------------------
(* The program: the module is imported, then calls arrive one at a time    *)

Unused == Raised("", "")

Init ==
    /\ OPENROUTER_API_KEY \in Keys
    /\ op = "idle"
    /\ arg = PyNone
    /\ provider = Unused
    /\ status = 0
    /\ body = ""
    /\ called = FALSE
    /\ analysis_result = PyNone
    /\ sent = <<>>
    /\ got = <<>>

\* POST /analyze-clauses: the handler runs to its response
Request ==
    /\ op = "idle"
    /\ \E req \in Requests, out \in Outcomes :
       \E h \in {analyze_clauses(req, OPENROUTER_API_KEY, out)} :
         /\ op' = "analyze_clauses"
         /\ arg' = req
         /\ provider' = IF h.did.sent = <<>> THEN Unused ELSE out
         /\ status' = h.resp.status
         /\ body' = h.resp.body
         /\ called' = h.called
         /\ analysis_result' = h.did.result.v
         /\ sent' = h.did.sent
         /\ got' = h.did.got
    /\ UNCHANGED OPENROUTER_API_KEY

\* a direct call of analyze_with_mistral(legal_text)
Analyze ==
    /\ op = "idle"
    /\ \E legal_text \in {"a", "   "}, out \in AllOutcomes :
       \E d \in {analyze_with_mistral(legal_text, OPENROUTER_API_KEY, out)} :
         /\ op' = "analyze_with_mistral"
         /\ arg' = PyStr(legal_text)
         /\ provider' = IF d.sent = <<>> THEN Unused ELSE out
         /\ analysis_result' = d.result.v
         /\ sent' = d.sent
         /\ got' = d.got
    /\ UNCHANGED <<OPENROUTER_API_KEY, status, body, called>>

\* a direct call of extract_json(text)
Extract ==
    /\ op = "idle"
    /\ \E text \in Texts :
         /\ op' = "extract_json"
         /\ arg' = text
         /\ got' = <<extract_json(text)>>
    /\ UNCHANGED <<OPENROUTER_API_KEY, provider, status, body, called,
                   analysis_result, sent>>

\* the call is over; nothing of it is kept
Return ==
    /\ op # "idle"
    /\ op' = "idle"
    /\ arg' = PyNone
    /\ provider' = Unused
    /\ status' = 0
    /\ body' = ""
    /\ called' = FALSE
    /\ analysis_result' = PyNone
    /\ sent' = <<>>
    /\ got' = <<>>
    /\ UNCHANGED OPENROUTER_API_KEY

Next == Request \/ Analyze \/ Extract \/ Return

Spec == Init /\ [][Next]_vars

-----------------------------------------------------------------------------
(* What the claims speak of *)

\* the pipeline ran in the call at hand
PipelineRan == op = "analyze_with_mistral" \/ (op = "analyze_clauses" /\ called)

\* the response body, read back as a JSON value
BodyValue == json_loads(PyStr(body))

\* m is a mapping whose two clause lists are present and empty
EmptyLists(m) ==
    /\ m.t = "dict"
    /\ {GoodKey, BadKey} \subseteq DOMAIN m.v
    /\ m.v[GoodKey] = PyList(<<>>)
    /\ m.v[BadKey] = PyList(<<>>)

\* m is a mapping that carries an error text
HasError(m) == m.t = "dict" /\ "error" \in DOMAIN m.v /\ m.v["error"].t = "str"

\* the request carries an object whose legal_text is a string that is not blank
GoodRequest(req) ==
    /\ req.ok
    /\ req.v.t = "dict"
    /\ "legal_text" \in DOMAIN req.v.v
    /\ req.v.v["legal_text"].t = "str"
    /\ Strip(req.v.v["legal_text"].v) # ""

\* the request carries nothing, or an object
ObjectOrNothing(req) == req.ok /\ req.v.t \in {"NoneType", "dict"}

\* C1: whatever the provider does, the mapping the pipeline returns holds both
\* clause-list keys, each bound to a sequence, never missing and never null.
C1_BothListsAlways ==
    PipelineRan =>
        /\ analysis_result.t = "dict"
        /\ {GoodKey, BadKey} \subseteq DOMAIN analysis_result.v
        /\ analysis_result.v[GoodKey].t = "list"
        /\ analysis_result.v[BadKey].t = "list"

\* C2: when the provider answers 200 and the extractor falls back, the caller
\* gets status 200, a soft error field and two empty clause lists: the error
\* of the extractor is not lost on the way.
C2_SoftErrorKept ==
    (op = "analyze_clauses" /\ got = <<Fallback>>) =>
        /\ status = 200
        /\ BodyValue.ok
        /\ HasError(BodyValue.v)
        /\ EmptyLists(BodyValue.v)

\* C3: the extractor returns a mapping for every input: the parsed mapping or
\* the fallback, never a value of another type.
C3_AlwaysMapping == op = "extract_json" => got[1].t = "dict"

\* C4: every client input error (a body that is no JSON, or no object, or
\* without legal_text, or whose legal_text is no string or blank) is answered
\* with status 400 and does not reach the pipeline.
C4_ClientErrorsGet400 ==
    (op = "analyze_clauses" /\ ~GoodRequest(arg)) => (status = 400 /\ ~called)

C6_DegradedIs200 ==
    (op = "analyze_clauses" /\ GoodRequest(arg)) =>
        /\ status = 200
        /\ called
        /\ BodyValue = Ret(analysis_result)

\* C6 witness: the provider answered 200 with a body without choices, and the
\* handler answered 200 with the error mapping of the pipeline
C6_Witness ==
    /\ op = "analyze_clauses"
    /\ GoodRequest(arg)
    /\ sent # <<>>
    /\ provider = Answered(200, Ret(EmptyDict))
    /\ status = 200
    /\ HasError(analysis_result)

\* C7: without a credential the pipeline returns at once a mapping whose
\* error says the key is not configured and whose clause lists are empty, and
\* posts nothing to the provider.
C7_NoCredentialNoCall ==
    (PipelineRan /\ Falsy(OPENROUTER_API_KEY)) =>
        /\ HasError(analysis_result)
        /\ Contains(analysis_result.v["error"].v, "not configured")
        /\ EmptyLists(analysis_result)
        /\ sent = <<>>
        /\ got = <<>>

\* C7 witness: a request went through the handler with no credential set
C7_Witness ==
    /\ op = "analyze_clauses"
    /\ called
    /\ OPENROUTER_API_KEY = PyNone
    /\ status = 200
    /\ HasError(analysis_result)

\* C8: when the call to the provider raises or is answered with a status
\* other than 200, the pipeline returns a mapping with an error describing
\* the failure and two empty clause lists; for a status s the error is
\* exactly "API request failed: <s>"; the extractor is not run.
C8_ProviderFailure ==
    (PipelineRan /\ sent # <<>> /\ (provider.raised \/ provider.status_code # 200)) =>
        /\ HasError(analysis_result)
        /\ EmptyLists(analysis_result)
        /\ got = <<>>
        /\ provider.raised => Contains(analysis_result.v["error"].v, provider.msg)
        /\ ~provider.raised =>
             analysis_result.v["error"].v
                = "API request failed: " \o ToString(provider.status_code)

\* C8 witness: the provider answered 503
C8_Witness ==
    /\ op = "analyze_with_mistral"
    /\ sent # <<>>
    /\ provider.status_code = 503
    /\ analysis_result = ErrorResult("API request failed: 503")

\* C9: a valid JSON object, serialized clean and without fences, comes back
\* from the extractor as a mapping equal to that object.
C9_RoundTrip ==
    (op = "extract_json" /\ arg.t = "str" /\ arg.v \in Serialized) =>
        got = <<json_loads(arg).v>>

\* C10: when a brace span is found and its strict parse fails, the permissive
\* parse of the fence-stripped text is tried before the fallback is returned.
C10_LiteralAfterStrictFails ==
    (/\ op = "extract_json"
     /\ arg.t = "str"
     /\ BraceMatch(FenceStripped(arg.v))
     /\ ~json_loads(PyStr(Cleaned(BraceSpan(FenceStripped(arg.v))))).ok
     /\ ast_literal_eval(FenceStripped(arg.v)).ok) =>
        got = <<ast_literal_eval(FenceStripped(arg.v)).v>>

====
